---- MODULE Spec2Model ----
(***************************************************************************)
(* State-machine model of GeometryDashGame (src/game.js).                  *)
(*                                                                         *)
(* Numbers.  The program computes in floating point with the constants     *)
(* 0.8 (gravity), 0.001 (speed increment) and whole-unit sizes.  Every     *)
(* length, position, velocity and speed of the model is the program's      *)
(* value multiplied by Scale = 1000, so that all of them are integers and  *)
(* the arithmetic is exact (binary rounding of 0.8 and 0.001 is not        *)
(* modelled).  Where the code multiplies two lengths, one factor (always   *)
(* an edge of a 40-unit shape, hence a whole number of units) is divided   *)
(* by Scale first, which keeps the sign and the comparisons of the code    *)
(* and keeps the products inside 32 bits.                                  *)
(*                                                                         *)
(* Scheduling.  The browser runs one callback at a time.  An event handler *)
(* is one action.  startGame is an async function: its body up to the      *)
(* await (lines 153-157) is one action and its continuation (lines         *)
(* 160-163) a second one that runs before any other callback.              *)
(***************************************************************************)
EXTENDS Integers, Sequences, FiniteSets, TLC

VARIABLES
    gameState,      \* this.gameState: "menu", "playing", "gameOver"
    pc,             \* "idle", or "resume" while startGame is suspended at its await
    scheduled,      \* requestAnimationFrame callbacks registered for the next frame
    running,        \* callbacks of the current frame that have not run yet
    score,          \* this.score
    distance,       \* this.distance
    gameSpeed,      \* this.gameSpeed
    cameraX,        \* this.cameraX
    player,         \* this.player: x, y, velocityY, isGrounded, rotation
    obstacles,      \* this.obstacles: spikes and blocks, in list order
    platforms,      \* this.platforms
    particles,      \* this.particles: color and remaining life of each particle
    keyA,           \* this.keys['KeyA']
    autoMode,       \* this.autoMode
    cooldownOver,   \* Date.now() - this.lastAutoJumpTime >= this.autoJumpCooldown, as last read
    contacts,       \* history: what the latest collision pass resolved, in order
    culled,         \* history: obstacles removed by the cull pass since the last reset
    sinceAutoJump,  \* Date.now() - this.lastAutoJumpTime in ms, counted up to the cooldown
    autoJumps,      \* history: the calls of jump() that autoplay has made
    musicGenerator, \* this.musicGenerator: "null" or "set"
    musicPlaying    \* isPlaying of the music generator

vars == <<gameState, pc, scheduled, running, score, distance, gameSpeed, cameraX,
          player, obstacles, platforms, particles, keyA, autoMode, cooldownOver,
          contacts, culled, sinceAutoJump, autoJumps, musicGenerator, musicPlaying>>

\* the state of the game without its audio
core == <<gameState, pc, scheduled, running, score, distance, gameSpeed, cameraX,
          player, obstacles, platforms, particles, keyA, autoMode, cooldownOver,
          contacts, culled, sinceAutoJump, autoJumps>>

\* the audio.  In Spec the host has no audio context: initAudio() fails at
\* every start; in SpecAudio it may succeed.
audio == <<musicGenerator, musicPlaying>>

\* the clock of the autoplay cooldown.  Spec abstracts it to cooldownOver and
\* leaves it alone; SpecClock runs it.
clock == <<sinceAutoJump, autoJumps>>

world == <<score, distance, gameSpeed, cameraX, player, obstacles, platforms, particles>>

(***************************************************************************)
(* Bounds of the model                                                     *)
(***************************************************************************)
MaxTicks == 24      \* ticks simulated after a reset
SpawnTicks == 1     \* the spawn planner's draw succeeds only in the first ticks after a reset
MaxLoops == 2       \* game-loop chains alive at once
GridReach == 42     \* largest offset, in units, between the spike and the player on the grid
LongFrameMs == 400  \* ms taken by a frame that is not on time
ClockTicks == 8     \* ticks simulated after a reset in the run with the clock
LongRun == 1000     \* ticks simulated after a reset once nothing is left on screen
AutoTicks == 60     \* ticks simulated in the run that autoplay plays alone
OrderSpawnTicks == 2 \* first ticks in which the spawn planner's draw succeeds, in the short run
OrderTicks == 6     \* ticks simulated in the short run
PlanAge == 10       \* ticks a run has lasted when the spawn planner is looked at
PlanTicks == 1      \* ticks simulated from there

(***************************************************************************)
(* Program constants                                                       *)
(***************************************************************************)
Scale == 1000
gameWidth == 150 * Scale
gameHeight == 180 * Scale
gravity == 800
jumpForce == -15000
initialSpeed == 5000
speedIncrement == 1
playerWidth == 40 * Scale
playerHeight == 40 * Scale
playerX == 100 * Scale
groundOffset == 50 * Scale
restartOffset == 100 * Scale
landTolerance == 5 * Scale
scorePerObstacle == 10
distanceUnit == 10 * Scale
particlesPerBurst == 8
particleLife == 100
particleDecay == 2
rotationStep == 200
autoJumpCooldown == 800
FrameMs == 16

\* ticks of the fairly scheduled run, and the ticks a flight may last: a jump
\* from the ground line is back on it after 37 ticks, one from the highest
\* platform top after 48
LiveTicks == 70

FlightTicks == 50
immediateDangerDistance == 40 * Scale
gapCheckDistance == 30 * Scale
groundLevelBand == 100 * Scale
tooTallMargin == 40 * Scale
spikeLookahead == 100 * Scale
spikeSpacing == 50 * Scale
spikeGroundOffset == 80 * Scale
jumpColor == "#00ff88"
blockColor == "#ffaa00"
platformColor == "#00aaff"

groundLine == gameHeight - groundOffset

Abs(n) == IF n < 0 THEN -n ELSE n

Sign(n) == IF n > 0 THEN 1 ELSE IF n < 0 THEN -1 ELSE 0

\* edge * d / Scale, for an edge that is a whole number of units
Mul(edge, d) == (edge \div Scale) * d

\* ticks run since the last reset: gameSpeed grows by one increment per tick
ticks == (gameSpeed - initialSpeed) \div speedIncrement

(***************************************************************************)
(* Player                                                                  *)
(***************************************************************************)
Burst(color) == [i \in 1..particlesPerBurst |-> [color |-> color, life |-> particleLife]]

\* addParticles: the random position, velocity and size of a particle are
\* cosmetic and not part of the model
addParticles(parts, color) == parts \o Burst(color)

\* jump() without its grounded test
jumpUngrounded(w) ==
    [player |-> [w.player EXCEPT !.velocityY = jumpForce, !.isGrounded = FALSE],
     particles |-> addParticles(w.particles, jumpColor)]

\* jump(): w is the pair of the player and the particle list
jump(w) ==
    IF w.player.isGrounded
    THEN [player |-> [w.player EXCEPT !.velocityY = jumpForce, !.isGrounded = FALSE],
          particles |-> addParticles(w.particles, jumpColor)]
    ELSE w

OverlapsX(p, e, cam) ==
    LET screenX == e.x - cam
    IN  p.x < screenX + e.width /\ p.x + playerWidth > screenX

checkIfGrounded(p, obs, plats, cam) ==
    \/ p.y + playerHeight >= groundLine
    \/ \E i \in DOMAIN obs :
          /\ obs[i].type = "block"
          /\ OverlapsX(p, obs[i], cam)
          /\ Abs(p.y + playerHeight - obs[i].y) < landTolerance
    \/ \E i \in DOMAIN plats :
          /\ OverlapsX(p, plats[i], cam)
          /\ Abs(p.y + playerHeight - plats[i].y) < landTolerance

\* updatePlayer without the ground collision of lines 244-247
updatePlayerNoClamp(p, obs, plats, cam) ==
    LET v1 == p.velocityY + gravity
        p2 == [p EXCEPT !.velocityY = v1, !.y = p.y + v1]
    IN  [p2 EXCEPT !.isGrounded = checkIfGrounded(p2, obs, plats, cam),
                   !.rotation = @ + rotationStep]

\* updatePlayer without the gravity of line 240
updatePlayerNoGravity(p, obs, plats, cam) ==
    LET v1 == p.velocityY
        y1 == p.y + v1
        hit == y1 + playerHeight > groundLine
        p2 == [p EXCEPT !.velocityY = IF hit THEN 0 ELSE v1,
                        !.y = IF hit THEN groundLine - playerHeight ELSE y1]
    IN  [p2 EXCEPT !.isGrounded = checkIfGrounded(p2, obs, plats, cam),
                   !.rotation = @ + rotationStep]

updatePlayer(p, obs, plats, cam) ==
    LET v1 == p.velocityY + gravity
        y1 == p.y + v1
        hit == y1 + playerHeight > groundLine
        p2 == [p EXCEPT !.velocityY = IF hit THEN 0 ELSE v1,
                        !.y = IF hit THEN groundLine - playerHeight ELSE y1]
    IN  [p2 EXCEPT !.isGrounded = checkIfGrounded(p2, obs, plats, cam),
                   !.rotation = @ + rotationStep]

(***************************************************************************)
(* Spawn planner                                                           *)
(***************************************************************************)
Spike(x, y) == [x |-> x, y |-> y, width |-> 40 * Scale, height |-> 40 * Scale, type |-> "spike"]

Block(x, y) == [x |-> x, y |-> y, width |-> 40 * Scale, height |-> 60 * Scale, type |-> "block"]

Platform(x, y, w) == [x |-> x, y |-> y, width |-> w, height |-> 20 * Scale]

blockHeights == {120 * Scale, 150 * Scale, 180 * Scale}

platformHeights == {150 * Scale, 200 * Scale, 250 * Scale}

platformWidths == {80 * Scale, 120 * Scale}

\* a lookahead test that takes the margin itself for ahead
AheadOrLevel(e, p, cam) == e.x - cam >= p.x + spikeLookahead

Ahead(e, p, cam) == e.x - cam > p.x + spikeLookahead

PlatformTops(plats, p, cam) ==
    LET ahead == SelectSeq(plats, LAMBDA e : Ahead(e, p, cam))
    IN  [i \in DOMAIN ahead |-> ahead[i].y - 40 * Scale]

BlockTops(obs, p, cam) ==
    LET ahead == SelectSeq(obs, LAMBDA e : e.type = "block" /\ Ahead(e, p, cam))
    IN  [i \in DOMAIN ahead |-> ahead[i].y - 40 * Scale]

\* the candidate heights, in the order the code pushes them
getSpikePositions(p, obs, plats, cam) ==
    LET positions == <<gameHeight - spikeGroundOffset>>
                       \o PlatformTops(plats, p, cam) \o BlockTops(obs, p, cam)
    IN  IF Len(positions) = 0 THEN <<gameHeight - spikeGroundOffset>> ELSE positions

\* the outcomes of the random draws of one call of generateObstacles
Draws(p, obs, plats, cam) ==
    {[type |-> "none"]}
    \cup [type : {"spike"}, position : DOMAIN getSpikePositions(p, obs, plats, cam),
          count : 1..3]
    \cup [type : {"block"}, height : blockHeights]
    \cup [type : {"platform"}, height : platformHeights, width : platformWidths]

\* an emission that begins on the player's column
spawnXOnPlayer(cam) == playerX + cam

\* world x of the first entity of an emission: this.gameWidth + this.cameraX
spawnX(cam) == gameWidth + cam

\* generateObstacles under draw d: the pair of the obstacle and platform lists
generateObstacles(d, p, obs, plats, cam) ==
    LET x0 == spawnX(cam)
    IN  CASE d.type = "spike" ->
                LET y == getSpikePositions(p, obs, plats, cam)[d.position]
                IN  [obstacles |-> obs \o [i \in 1..d.count |-> Spike(x0 + (i - 1) * spikeSpacing, y)],
                     platforms |-> plats]
          [] d.type = "block" ->
                [obstacles |-> Append(obs, Block(x0, gameHeight - d.height)),
                 platforms |-> plats]
          [] d.type = "platform" ->
                [obstacles |-> obs,
                 platforms |-> Append(plats, Platform(x0, gameHeight - d.height, d.width))]
          [] OTHER -> [obstacles |-> obs, platforms |-> plats]

(***************************************************************************)
(* Scroll and cull                                                         *)
(***************************************************************************)
Scrolled(list, speed) == [i \in DOMAIN list |-> [list[i] EXCEPT !.x = @ - speed]]

\* an off-screen test on the leading edge
OffScreenLeading(e, cam) == e.x < cam

OffScreen(e, cam) == e.x + e.width < cam

Kept(list, cam) == SelectSeq(list, LAMBDA e : ~OffScreen(e, cam))

\* a score that counts removed platforms as well
scoreForAny(removedObstacles, removedPlatforms) ==
    scorePerObstacle * (removedObstacles + removedPlatforms)

\* the score added for the entities one cull pass removes (line 402)
scoreFor(removedObstacles, removedPlatforms) == scorePerObstacle * removedObstacles

\* updateObstacles: every element is moved, then removed if it is off screen
updateObstacles(obs, plats, speed, cam, sc) ==
    LET obs2 == Kept(Scrolled(obs, speed), cam)
        plats2 == Kept(Scrolled(plats, speed), cam)
    IN  [obstacles |-> obs2,
         platforms |-> plats2,
         removed |-> Len(obs) - Len(obs2),
         score |-> sc + scoreFor(Len(obs) - Len(obs2), Len(plats) - Len(plats2))]

updateParticles(parts) ==
    SelectSeq([i \in DOMAIN parts |-> [parts[i] EXCEPT !.life = @ - particleDecay]],
              LAMBDA q : ~(q.life <= 0))

(***************************************************************************)
(* Geometry kernel                                                         *)
(***************************************************************************)
Pt(x, y) == [x |-> x, y |-> y]

\* linesIntersect: ua and ub are quotients by the denominator; 0 <= n/d <= 1 is
\* decided on the numerator n and the denominator d without dividing
\* 0 < n/d < 1: a test that leaves out the ends of the segments
InUnitOpen(n, d) == IF d > 0 THEN 0 < n /\ n < d ELSE d < n /\ n < 0

InUnit(n, d) == IF d > 0 THEN 0 <= n /\ n <= d ELSE d <= n /\ n <= 0

linesIntersect(p1, p2, p3, p4) ==
    LET denominator == Mul(p4.y - p3.y, p2.x - p1.x) - Mul(p4.x - p3.x, p2.y - p1.y)
        ua == Mul(p4.x - p3.x, p1.y - p3.y) - Mul(p4.y - p3.y, p1.x - p3.x)
        ub == Mul(p2.x - p1.x, p1.y - p3.y) - Mul(p2.y - p1.y, p1.x - p3.x)
    IN  IF denominator = 0 THEN FALSE
        ELSE InUnit(ua, denominator) /\ InUnit(ub, denominator)

\* pointInTriangle: a, b and c >= 0, decided on the signs of the numerators
\* and of the denominator (which is width * height of the spike, never 0)
pointInTriangle(point, triangle) ==
    LET p1 == triangle[1]
        p2 == triangle[2]
        p3 == triangle[3]
        denominator == Mul(p2.y - p3.y, p1.x - p3.x) + Mul(p3.x - p2.x, p1.y - p3.y)
        a == Mul(p2.y - p3.y, point.x - p3.x) + Mul(p3.x - p2.x, point.y - p3.y)
        b == Mul(p3.y - p1.y, point.x - p3.x) + Mul(p1.x - p3.x, point.y - p3.y)
        c == denominator - a - b
    IN  /\ denominator # 0
        /\ Sign(a) * Sign(denominator) >= 0
        /\ Sign(b) * Sign(denominator) >= 0
        /\ Sign(c) * Sign(denominator) >= 0

\* a spike test on the bounding box of the spike instead of its triangle
checkSpikeCollisionBox(p, spike, cam) ==
    /\ p.x <= spike.x - cam + spike.width /\ p.x + playerWidth >= spike.x - cam
    /\ p.y <= spike.y + spike.height /\ p.y + playerHeight >= spike.y

\* a spike test that takes the spike's world x for its screen x
checkSpikeCollisionWorldX(p, spike, cam) == checkSpikeCollisionBox(p, spike, 0)

checkSpikeCollision(p, spike, cam) ==
    LET spikeX == spike.x - cam
        spikeY == spike.y
        trianglePoints == <<Pt(spikeX, spikeY + spike.height),
                            Pt(spikeX + spike.width \div 2, spikeY),
                            Pt(spikeX + spike.width, spikeY + spike.height)>>
        playerCorners == <<Pt(p.x, p.y),
                           Pt(p.x + playerWidth, p.y),
                           Pt(p.x, p.y + playerHeight),
                           Pt(p.x + playerWidth, p.y + playerHeight)>>
        triangleEdges == <<<<trianglePoints[1], trianglePoints[2]>>,
                           <<trianglePoints[2], trianglePoints[3]>>,
                           <<trianglePoints[3], trianglePoints[1]>>>>
        playerEdges == <<<<playerCorners[1], playerCorners[2]>>,
                         <<playerCorners[2], playerCorners[4]>>,
                         <<playerCorners[4], playerCorners[3]>>,
                         <<playerCorners[3], playerCorners[1]>>>>
    IN  \/ \E i \in 1..4 : pointInTriangle(playerCorners[i], trianglePoints)
        \/ \E i \in 1..3 :
              /\ trianglePoints[i].x >= p.x /\ trianglePoints[i].x <= p.x + playerWidth
              /\ trianglePoints[i].y >= p.y /\ trianglePoints[i].y <= p.y + playerHeight
        \/ \E i \in 1..3 : \E j \in 1..4 :
              linesIntersect(triangleEdges[i][1], triangleEdges[i][2],
                             playerEdges[j][1], playerEdges[j][2])

(***************************************************************************)
(* Collision engine.  c is the state the pass works on: the player, the    *)
(* particle list, the phase and the list of the contacts resolved so far.  *)
(***************************************************************************)
\* the landing test of a block or a platform (lines 445-449, 473-477)
LandsOn(p, e, cam) ==
    /\ OverlapsX(p, e, cam)
    /\ p.y + playerHeight >= e.y
    /\ p.y + playerHeight <= e.y + e.height + landTolerance
    /\ p.velocityY >= 0

\* the side or bottom contact of a block (lines 459-462)
HitsBlock(p, e, cam) ==
    /\ OverlapsX(p, e, cam)
    /\ p.y < e.y + e.height
    /\ p.y + playerHeight > e.y

\* a landing that puts the player under the surface
LandedUnder(p, e) == [p EXCEPT !.y = e.y + e.height, !.velocityY = 0]

\* a landing that does not zero the velocity
LandedKeepsVelocity(p, e) == [p EXCEPT !.y = e.y - playerHeight]

\* the player after a landing on e (lines 452-453, 480-481)
Landed(p, e) == [p EXCEPT !.y = e.y - playerHeight, !.velocityY = 0]

\* an entry of the history of a pass: the entity examined, where it was on
\* screen, the player before and after, and the outcome
Contact(kind, surface, e, cam, before, after) ==
    [kind |-> kind, surface |-> surface, screenX |-> e.x - cam, y |-> e.y,
     width |-> e.width, height |-> e.height, before |-> before, after |-> after]

\* gameOver(): the phase; the texts, the screen and the music are not modelled
gameOver(c, surface, e, cam) ==
    [c EXCEPT !.gameState = "gameOver",
              !.contacts = Append(@, Contact("lethal", surface, e, cam, c.player, c.player))]

\* a landing that also ends the run
landEndsRun(c, surface, e, cam, color) ==
    [c EXCEPT !.gameState = "gameOver",
              !.player = Landed(c.player, e),
              !.particles = addParticles(@, color),
              !.contacts = Append(@, Contact("land", surface, e, cam, c.player,
                                             Landed(c.player, e)))]

land(c, surface, e, cam, color) ==
    [c EXCEPT !.player = Landed(c.player, e),
              !.particles = addParticles(@, color),
              !.contacts = Append(@, Contact("land", surface, e, cam, c.player,
                                             Landed(c.player, e)))]

pass(c, surface, e, cam) ==
    [c EXCEPT !.contacts = Append(@, Contact("none", surface, e, cam, c.player, c.player))]

\* the loop body with the lethal test of a block before its landing test
collideObstacleLethalFirst(c, o, cam) ==
    IF o.type = "spike"
    THEN IF checkSpikeCollision(c.player, o, cam) THEN gameOver(c, "spike", o, cam)
         ELSE pass(c, "spike", o, cam)
    ELSE IF HitsBlock(c.player, o, cam) THEN gameOver(c, "block", o, cam)
         ELSE IF LandsOn(c.player, o, cam) THEN land(c, "block", o, cam, blockColor)
         ELSE pass(c, "block", o, cam)

\* one iteration of the loop over the obstacles (lines 434-466)
collideObstacle(c, o, cam) ==
    IF o.type = "spike"
    THEN IF checkSpikeCollision(c.player, o, cam) THEN gameOver(c, "spike", o, cam)
         ELSE pass(c, "spike", o, cam)
    ELSE IF LandsOn(c.player, o, cam) THEN land(c, "block", o, cam, blockColor)
         ELSE IF HitsBlock(c.player, o, cam) THEN gameOver(c, "block", o, cam)
         ELSE pass(c, "block", o, cam)

\* one iteration of the loop over the platforms (lines 470-485)
collidePlatform(c, e, cam) ==
    IF LandsOn(c.player, e, cam) THEN land(c, "platform", e, cam, platformColor)
    ELSE pass(c, "platform", e, cam)

RECURSIVE collideObstacles(_, _, _, _)
collideObstacles(c, obs, i, cam) ==
    IF i > Len(obs) THEN c
    ELSE LET c2 == collideObstacle(c, obs[i], cam)
         IN  IF c2.gameState = "gameOver" THEN c2
             ELSE collideObstacles(c2, obs, i + 1, cam)

RECURSIVE collidePlatforms(_, _, _, _)
collidePlatforms(c, plats, i, cam) ==
    IF i > Len(plats) THEN c
    ELSE collidePlatforms(collidePlatform(c, plats[i], cam), plats, i + 1, cam)

\* checkCollisions: gameOver() returns from the whole pass
checkCollisions(p, parts, obs, plats, cam) ==
    LET c0 == [player |-> p, particles |-> parts, gameState |-> "playing", contacts |-> <<>>]
        c1 == collideObstacles(c0, obs, 1, cam)
    IN  IF c1.gameState = "gameOver" THEN c1 ELSE collidePlatforms(c1, plats, 1, cam)

(***************************************************************************)
(* Camera and autoplay                                                     *)
(***************************************************************************)
\* updateCamera with the distance taken from the offset before the advance
updateCameraLagging(cam, speed) ==
    [cameraX |-> cam + speed,
     distance |-> cam \div distanceUnit,
     gameSpeed |-> speed + speedIncrement]

\* updateCamera without the speed-up of line 666
updateCameraSteady(cam, speed) ==
    [cameraX |-> cam + speed,
     distance |-> (cam + speed) \div distanceUnit,
     gameSpeed |-> speed]

updateCamera(cam, speed) ==
    [cameraX |-> cam + speed,
     distance |-> (cam + speed) \div distanceUnit,
     gameSpeed |-> speed + speedIncrement]

InRange(o, p, cam, range) ==
    LET dist == (o.x - cam) - p.x
    IN  dist > 0 /\ dist < range

\* a decision that does not take an empty road for a gap
WantsJumpNoGap(p, obs, cam) ==
    \/ \E i \in DOMAIN obs : obs[i].type = "spike" /\ InRange(obs[i], p, cam, immediateDangerDistance)
    \/ /\ p.y >= gameHeight - groundLevelBand
       /\ \E i \in DOMAIN obs :
             /\ obs[i].type = "block" /\ InRange(obs[i], p, cam, immediateDangerDistance)
             /\ obs[i].y < p.y + playerHeight - tooTallMargin

\* a decision that does not look at blocks
WantsJumpNoBlocks(p, obs, cam) ==
    \/ \E i \in DOMAIN obs : obs[i].type = "spike" /\ InRange(obs[i], p, cam, immediateDangerDistance)
    \/ /\ p.y >= gameHeight - groundLevelBand
       /\ ~\E i \in DOMAIN obs : InRange(obs[i], p, cam, gapCheckDistance)

\* the decision of autoJump after the grounded and the cooldown tests
WantsJump(p, obs, cam) ==
    \/ \E i \in DOMAIN obs : obs[i].type = "spike" /\ InRange(obs[i], p, cam, immediateDangerDistance)
    \/ /\ p.y >= gameHeight - groundLevelBand
       /\ \E i \in DOMAIN obs :
             /\ obs[i].type = "block" /\ InRange(obs[i], p, cam, immediateDangerDistance)
             /\ obs[i].y < p.y + playerHeight - tooTallMargin
    \/ /\ p.y >= gameHeight - groundLevelBand
       /\ ~\E i \in DOMAIN obs : InRange(obs[i], p, cam, gapCheckDistance)

\* autoJump without its cooldown test
autoJumpNoCooldown(a, obs, cam, over) ==
    IF ~a.player.isGrounded THEN a
    ELSE IF WantsJump(a.player, obs, cam)
         THEN LET j == jump([player |-> a.player, particles |-> a.particles])
              IN  [player |-> j.player, particles |-> j.particles, cooldownOver |-> FALSE,
                   jumpCalls |-> Append(a.jumpCalls, a.player.isGrounded)]
         ELSE [a EXCEPT !.cooldownOver = TRUE]

\* autoJump: a is the player, the particle list, the result of the cooldown
\* test and the calls of jump() made so far (the grounded flag at each call);
\* over is what the test currentTime - lastAutoJumpTime >= autoJumpCooldown
\* gives if this call reads the clock
autoJump(a, obs, cam, over) ==
    IF ~a.player.isGrounded THEN a
    ELSE IF ~over THEN a
    ELSE IF WantsJump(a.player, obs, cam)
         THEN LET j == jump([player |-> a.player, particles |-> a.particles])
              IN  [player |-> j.player, particles |-> j.particles, cooldownOver |-> FALSE,
                   jumpCalls |-> Append(a.jumpCalls, a.player.isGrounded)]
         ELSE [a EXCEPT !.cooldownOver = TRUE]

(***************************************************************************)
(* Simulation driver                                                       *)
(***************************************************************************)
\* u is the result of a tick: its autoJump came to the cooldown test
ReadsClock(u) == u.autoMode /\ u.player.isGrounded

\* the draws of the spawn planner in the coming tick
TickDraws ==
    IF ticks < SpawnTicks
    THEN Draws(updatePlayer(player, obstacles, platforms, cameraX), obstacles, platforms, cameraX)
    ELSE {[type |-> "none"]}

\* the steps after the collision pass with autoplay run in every tick
afterCollisionsAlwaysAuto(col, obs, auto, over) ==
    LET cam == updateCamera(cameraX, gameSpeed)
        a0 == [player |-> col.player, particles |-> col.particles, cooldownOver |-> cooldownOver,
               jumpCalls |-> <<>>]
        a == autoJump(a0, obs, cam.cameraX, over)
    IN  [cameraX |-> cam.cameraX, distance |-> cam.distance, gameSpeed |-> cam.gameSpeed,
         player |-> a.player, particles |-> a.particles, cooldownOver |-> a.cooldownOver,
         jumpCalls |-> a.jumpCalls]

\* the steps of update() after the collision pass (lines 922-929), given the
\* result col of the pass
afterCollisions(col, obs, auto, over) ==
    LET cam == updateCamera(cameraX, gameSpeed)
        a0 == [player |-> col.player, particles |-> col.particles, cooldownOver |-> cooldownOver,
               jumpCalls |-> <<>>]
        a == IF auto THEN autoJump(a0, obs, cam.cameraX, over) ELSE a0
    IN  [cameraX |-> cam.cameraX, distance |-> cam.distance, gameSpeed |-> cam.gameSpeed,
         player |-> a.player, particles |-> a.particles, cooldownOver |-> a.cooldownOver,
         jumpCalls |-> a.jumpCalls]

\* update() in phase Playing under draw d and clock reading over
update(d, over) ==
    LET auto == keyA
        p1 == updatePlayer(player, obstacles, platforms, cameraX)
        gen == generateObstacles(d, p1, obstacles, platforms, cameraX)
        upd == updateObstacles(gen.obstacles, gen.platforms, gameSpeed, cameraX, score)
        col == checkCollisions(p1, updateParticles(particles), upd.obstacles, upd.platforms, cameraX)
        rest == afterCollisions(col, upd.obstacles, auto, over)
    IN  [gameState |-> col.gameState, score |-> upd.score, distance |-> rest.distance,
         gameSpeed |-> rest.gameSpeed, cameraX |-> rest.cameraX, player |-> rest.player,
         obstacles |-> upd.obstacles, platforms |-> upd.platforms,
         particles |-> rest.particles, autoMode |-> auto, cooldownOver |-> rest.cooldownOver,
         contacts |-> col.contacts, culled |-> culled + upd.removed,
         jumpCalls |-> rest.jumpCalls]

\* what the cooldown test can give in the coming tick under draw d.  The clock
\* is the host's: once the cooldown is over it stays over until the next
\* autoplay jump, and before that any frame may be the one that ends it.  The
\* test is reached only by a grounded player in auto mode.
ClockReads(d) ==
    IF cooldownOver \/ ~ReadsClock(update(d, FALSE)) THEN {cooldownOver} ELSE BOOLEAN

\* the assignments of one call of gameLoop() whose update() runs a tick and
\* gives u; the call registers the next callback if the phase is still Playing
Apply(u) ==
    /\ gameState' = u.gameState
    /\ score' = u.score
    /\ distance' = u.distance
    /\ gameSpeed' = u.gameSpeed
    /\ cameraX' = u.cameraX
    /\ player' = u.player
    /\ obstacles' = u.obstacles
    /\ platforms' = u.platforms
    /\ particles' = u.particles
    /\ autoMode' = u.autoMode
    /\ cooldownOver' = u.cooldownOver
    /\ contacts' = u.contacts
    /\ culled' = u.culled

Tick(d, over) == \E u \in {update(d, over)} : Apply(u)

\* no call yet: the last jump time is 0 and the clock is far beyond it
noAutoJumps ==
    [calls |-> 0, grounded |-> TRUE, gap |-> autoJumpCooldown, since |-> autoJumpCooldown]

\* a callback that registers the next one whatever the phase
RescheduledAlways == IF gameState' = "playing" THEN 1 ELSE 1

Rescheduled == IF gameState' = "playing" THEN 1 ELSE 0

\* no callback is running: the browser may deliver an event
Quiet == pc = "idle" /\ running = 0

initialPlayer == [x |-> playerX, y |-> 0, velocityY |-> 0, isGrounded |-> FALSE, rotation |-> 0]

restartPlayer ==
    [x |-> playerX, y |-> gameHeight - restartOffset, velocityY |-> 0,
     isGrounded |-> FALSE, rotation |-> 0]

Init ==
    /\ gameState = "menu"
    /\ pc = "idle"
    /\ scheduled = 0
    /\ running = 0
    /\ score = 0
    /\ distance = 0
    /\ gameSpeed = initialSpeed
    /\ cameraX = 0
    /\ player = initialPlayer
    /\ obstacles = <<>>
    /\ platforms = <<>>
    /\ particles = <<>>
    /\ keyA = FALSE
    /\ autoMode = FALSE
    /\ cooldownOver = TRUE
    /\ contacts = <<>>
    /\ culled = 0
    /\ sinceAutoJump = autoJumpCooldown
    /\ autoJumps = noAutoJumps
    /\ musicGenerator = "null"
    /\ musicPlaying = FALSE

\* startGame() up to its await (lines 153-157)
startGame ==
    /\ gameState' = "playing"
    /\ pc' = "resume"

\* initAudio(): ok is whether the host gives an audio context; lines 167-169
\* make a new generator, which is not playing; the catch of line 170 leaves
\* the fields as they were
initAudio(ok) ==
    /\ musicGenerator' = IF ok THEN "set" ELSE musicGenerator
    /\ musicPlaying' = IF ok THEN FALSE ELSE musicPlaying

\* startMusic() without the test of line 176: the call on a null generator
\* throws
startMusicUnguarded(generator) ==
    [threw |-> generator = "null", playing |-> generator = "set"]

\* startMusic(): whether it throws, and whether the generator plays after it
startMusic(generator) ==
    [threw |-> FALSE, playing |-> generator = "set"]

\* the start handler without the audio
StartCore ==
    /\ Quiet
    /\ scheduled < MaxLoops
    /\ ticks < MaxTicks
    /\ startGame
    /\ UNCHANGED <<scheduled, running, score, distance, gameSpeed, cameraX, player,
                   obstacles, platforms, particles, keyA, autoMode, cooldownOver,
                   contacts, culled, sinceAutoJump, autoJumps>>

\* click on the start button (line 137) in a host without audio
StartClick == StartCore /\ initAudio(FALSE)

\* restartGame() without the audio
RestartCore ==
    /\ Quiet
    /\ scheduled < MaxLoops
    /\ score' = 0
    /\ distance' = 0
    /\ gameSpeed' = initialSpeed
    /\ cameraX' = 0
    /\ player' = restartPlayer
    /\ obstacles' = <<>>
    /\ platforms' = <<>>
    /\ particles' = <<>>
    /\ startGame
    /\ contacts' = <<>>
    /\ culled' = 0
    /\ UNCHANGED <<scheduled, running, keyA, autoMode, cooldownOver, sinceAutoJump, autoJumps>>

\* click on the restart button (line 141) in a host without audio
RestartClick == RestartCore /\ initAudio(FALSE)

\* gameOver() stops the music of a generator (lines 675-677)
musicAfter(playing) == IF gameState' = "gameOver" THEN FALSE ELSE playing

\* startGame() after its await (lines 160-163) without the audio: gameLoop()
\* runs a first tick at once
ResumeCore ==
    /\ pc = "resume"
    /\ pc' = "idle"
    /\ \E d \in TickDraws : \E over \in ClockReads(d) : Tick(d, over)
    /\ scheduled' = scheduled + Rescheduled
    /\ UNCHANGED <<running, keyA, sinceAutoJump, autoJumps>>

\* startGame() after its await: an exception of startMusic() rejects the
\* promise of startGame() and gameLoop() is not called
Resume ==
    IF startMusic(musicGenerator).threw
    THEN /\ pc = "resume"
         /\ pc' = "idle"
         /\ UNCHANGED <<gameState, scheduled, running, score, distance, gameSpeed, cameraX,
                        player, obstacles, platforms, particles, keyA, autoMode,
                        cooldownOver, contacts, culled, sinceAutoJump, autoJumps,
                        musicGenerator, musicPlaying>>
    ELSE /\ ResumeCore
         /\ musicPlaying' = musicAfter(startMusic(musicGenerator).playing)
         /\ UNCHANGED musicGenerator

\* an animation-frame callback without the audio
GameLoopWhile(mayTick) ==
    /\ pc = "idle"
    /\ scheduled + running > 0
    /\ LET first == running = 0
           left == IF first THEN scheduled - 1 ELSE running - 1
           next == IF first THEN 0 ELSE scheduled
       IN  IF gameState = "playing"
           THEN /\ mayTick
                /\ \E d \in TickDraws : \E over \in ClockReads(d) : Tick(d, over)
                /\ running' = left
                /\ scheduled' = next + Rescheduled
                /\ UNCHANGED <<pc, keyA, sinceAutoJump, autoJumps>>
           ELSE /\ running' = left
                /\ scheduled' = next
                /\ UNCHANGED <<gameState, pc, score, distance, gameSpeed, cameraX, player,
                               obstacles, platforms, particles, keyA, autoMode,
                               cooldownOver, contacts, culled, sinceAutoJump, autoJumps>>

\* gameLoop() of a run that is followed for MaxTicks ticks
GameLoopCore == GameLoopWhile(ticks < MaxTicks)

\* an animation-frame callback: gameLoop()
GameLoop ==
    /\ GameLoopCore
    /\ musicPlaying' = musicAfter(musicPlaying)
    /\ UNCHANGED musicGenerator

\* the jump of a key or touch handler, taken only in phase Playing
requestJump ==
    LET j == IF gameState = "playing"
             THEN jump([player |-> player, particles |-> particles])
             ELSE [player |-> player, particles |-> particles]
    IN  /\ player' = j.player
        /\ particles' = j.particles

\* keydown of Space (lines 125-130)
KeyDownSpace ==
    /\ Quiet
    /\ requestJump
    /\ UNCHANGED <<gameState, pc, scheduled, running, score, distance, gameSpeed, cameraX,
                   obstacles, platforms, keyA, autoMode, cooldownOver, contacts, culled,
                   sinceAutoJump, autoJumps, musicGenerator, musicPlaying>>

\* touchstart (lines 91-105); whether the touch cooldown has elapsed is read
\* from the clock
TouchStart ==
    /\ Quiet
    /\ \E elapsed \in BOOLEAN :
          IF elapsed THEN requestJump ELSE UNCHANGED <<player, particles>>
    /\ UNCHANGED <<gameState, pc, scheduled, running, score, distance, gameSpeed, cameraX,
                   obstacles, platforms, keyA, autoMode, cooldownOver, contacts, culled,
                   sinceAutoJump, autoJumps, musicGenerator, musicPlaying>>

\* keydown and keyup of A (lines 126, 133)
KeyDownA ==
    /\ Quiet
    /\ keyA' = TRUE
    /\ UNCHANGED <<gameState, pc, scheduled, running, score, distance, gameSpeed, cameraX,
                   player, obstacles, platforms, particles, autoMode, cooldownOver,
                   contacts, culled, sinceAutoJump, autoJumps, musicGenerator, musicPlaying>>

KeyUpA ==
    /\ Quiet
    /\ keyA' = FALSE
    /\ UNCHANGED <<gameState, pc, scheduled, running, score, distance, gameSpeed, cameraX,
                   player, obstacles, platforms, particles, autoMode, cooldownOver,
                   contacts, culled, sinceAutoJump, autoJumps, musicGenerator, musicPlaying>>

Next ==
    \/ StartClick
    \/ RestartClick
    \/ Resume
    \/ GameLoop
    \/ KeyDownSpace
    \/ TouchStart
    \/ KeyDownA
    \/ KeyUpA

Spec == Init /\ [][Next]_vars

(***************************************************************************)
(* The run in a host whose audio may work: each call of initAudio() gets   *)
(* an audio context or fails.                                              *)
(***************************************************************************)
StartClickAudio == \E ok \in BOOLEAN : StartCore /\ initAudio(ok)

RestartClickAudio == \E ok \in BOOLEAN : RestartCore /\ initAudio(ok)

NextAudio ==
    \/ StartClickAudio
    \/ RestartClickAudio
    \/ Resume
    \/ GameLoop
    \/ KeyDownSpace
    \/ TouchStart
    \/ KeyDownA
    \/ KeyUpA

SpecAudio == Init /\ [][NextAudio]_vars

(***************************************************************************)
(* Long runs.  Beyond MaxTicks a run is followed, up to LongRun ticks,     *)
(* while a single loop chain runs it, nothing is on screen and the spawn   *)
(* planner draws nothing.                                                  *)
(***************************************************************************)
LongTail ==
    /\ scheduled = 1
    /\ running = 0
    /\ ticks < LongRun
    /\ obstacles = <<>>
    /\ platforms = <<>>
    /\ particles = <<>>

\* an animation-frame callback: gameLoop()
GameLoopLong ==
    /\ GameLoopWhile(ticks < MaxTicks \/ LongTail)
    /\ musicPlaying' = musicAfter(musicPlaying)
    /\ UNCHANGED musicGenerator

NextLong ==
    \/ StartClick
    \/ RestartClick
    \/ Resume
    \/ GameLoopLong
    \/ KeyDownSpace
    \/ TouchStart
    \/ KeyDownA
    \/ KeyUpA

SpecLong == Init /\ [][NextLong]_vars

(***************************************************************************)
(* The run with the clock of the autoplay cooldown.  Every frame reads     *)
(* Date.now(); ms is the time since the previous reading.                  *)
(***************************************************************************)
FrameTimes == {FrameMs, LongFrameMs}

Later(since, ms) ==
    IF since + ms >= autoJumpCooldown THEN autoJumpCooldown ELSE since + ms

\* the log of autoplay's calls of jump() after a frame of ms in which it made
\* the calls of u
Logged(u, ms) ==
    IF u.jumpCalls = <<>>
    THEN [autoJumps EXCEPT !.since = Later(@, ms)]
    ELSE [calls |-> IF autoJumps.calls < 2 THEN autoJumps.calls + 1 ELSE 2,
          grounded |-> \A i \in DOMAIN u.jumpCalls : u.jumpCalls[i],
          gap |-> Later(autoJumps.since, ms),
          since |-> 0]

\* a tick ms after the previous reading of the clock: lines 579-580 compare
\* the reading with lastAutoJumpTime, lines 603, 625 and 653 store it
ClockTick(d, ms) ==
    \E u \in {update(d, Later(sinceAutoJump, ms) >= autoJumpCooldown)} :
        /\ Apply(u)
        /\ sinceAutoJump' = IF u.jumpCalls = <<>> THEN Later(sinceAutoJump, ms) ELSE 0
        /\ autoJumps' = Logged(u, ms)

\* startGame() after its await, any time after the click
ResumeClock ==
    /\ pc = "resume"
    /\ pc' = "idle"
    /\ \E d \in TickDraws : \E ms \in {0} \cup FrameTimes : ClockTick(d, ms)
    /\ scheduled' = scheduled + Rescheduled
    /\ UNCHANGED <<running, keyA, musicGenerator, musicPlaying>>

\* an animation-frame callback; the callbacks of one frame read the same time
GameLoopClock ==
    /\ pc = "idle"
    /\ scheduled + running > 0
    /\ LET first == running = 0
           left == IF first THEN scheduled - 1 ELSE running - 1
           next == IF first THEN 0 ELSE scheduled
       IN  \E ms \in IF first THEN FrameTimes ELSE {0} :
             IF gameState = "playing"
             THEN /\ ticks < ClockTicks
                  /\ \E d \in TickDraws : ClockTick(d, ms)
                  /\ running' = left
                  /\ scheduled' = next + Rescheduled
                  /\ UNCHANGED <<pc, keyA, musicGenerator, musicPlaying>>
             ELSE /\ running' = left
                  /\ scheduled' = next
                  /\ sinceAutoJump' = Later(sinceAutoJump, ms)
                  /\ autoJumps' = [autoJumps EXCEPT !.since = Later(@, ms)]
                  /\ UNCHANGED <<gameState, pc, score, distance, gameSpeed, cameraX, player,
                                 obstacles, platforms, particles, keyA, autoMode,
                                 cooldownOver, contacts, culled, musicGenerator, musicPlaying>>

NextClock ==
    \/ StartClick
    \/ RestartClick
    \/ ResumeClock
    \/ GameLoopClock
    \/ KeyDownSpace
    \/ KeyDownA
    \/ KeyUpA

SpecClock == Init /\ [][NextClock]_vars

(***************************************************************************)
(* The run that autoplay plays alone: key A is held from the click on, the *)
(* frames are on time, and the spawn planner draws nothing but one         *)
(* ground-level spike, at some tick at which the player is on the ground.  *)
(***************************************************************************)
groundSpike == [type |-> "spike", position |-> 1, count |-> 1]

AutoDraws ==
    IF /\ obstacles = <<>>
       /\ culled = 0
       /\ updatePlayer(player, obstacles, platforms, cameraX).isGrounded
    THEN {[type |-> "none"], groundSpike}
    ELSE {[type |-> "none"]}

\* the state startGame() is suspended in after a click on start (the player
\* of a new session) or on restart
InitAuto ==
    /\ gameState = "playing"
    /\ pc = "resume"
    /\ scheduled = 0
    /\ running = 0
    /\ score = 0
    /\ distance = 0
    /\ gameSpeed = initialSpeed
    /\ cameraX = 0
    /\ player \in {initialPlayer, restartPlayer}
    /\ obstacles = <<>>
    /\ platforms = <<>>
    /\ particles = <<>>
    /\ keyA = TRUE
    /\ autoMode = FALSE
    /\ cooldownOver = TRUE
    /\ contacts = <<>>
    /\ culled = 0
    /\ sinceAutoJump = autoJumpCooldown
    /\ autoJumps = noAutoJumps
    /\ musicGenerator = "null"
    /\ musicPlaying = FALSE

ResumeAuto ==
    /\ pc = "resume"
    /\ pc' = "idle"
    /\ \E d \in AutoDraws : ClockTick(d, 0)
    /\ scheduled' = scheduled + Rescheduled
    /\ UNCHANGED <<running, keyA, musicGenerator, musicPlaying>>

GameLoopAuto ==
    /\ pc = "idle"
    /\ scheduled = 1
    /\ running = 0
    /\ gameState = "playing"
    /\ ticks < AutoTicks
    /\ \E d \in AutoDraws : ClockTick(d, FrameMs)
    /\ scheduled' = Rescheduled
    /\ UNCHANGED <<pc, running, keyA, musicGenerator, musicPlaying>>

NextAuto ==
    \/ ResumeAuto
    \/ GameLoopAuto

SpecAuto == InitAuto /\ [][NextAuto]_vars

(***************************************************************************)
(* The short run: one loop chain, no key, and a spawn planner whose draw   *)
(* may succeed in each of the first OrderSpawnTicks ticks, so that a spike *)
(* and a block meet the player in the same tick.                           *)
(***************************************************************************)
OrderDraws ==
    IF ticks < OrderSpawnTicks
    THEN Draws(updatePlayer(player, obstacles, platforms, cameraX), obstacles, platforms, cameraX)
    ELSE {[type |-> "none"]}

\* the state startGame() is suspended in after a click on start or restart
InitOrder ==
    /\ gameState = "playing"
    /\ pc = "resume"
    /\ scheduled = 0
    /\ running = 0
    /\ score = 0
    /\ distance = 0
    /\ gameSpeed = initialSpeed
    /\ cameraX = 0
    /\ player \in {initialPlayer, restartPlayer}
    /\ obstacles = <<>>
    /\ platforms = <<>>
    /\ particles = <<>>
    /\ keyA = FALSE
    /\ autoMode = FALSE
    /\ cooldownOver = TRUE
    /\ contacts = <<>>
    /\ culled = 0
    /\ sinceAutoJump = autoJumpCooldown
    /\ autoJumps = noAutoJumps
    /\ musicGenerator = "null"
    /\ musicPlaying = FALSE

ResumeOrder ==
    /\ pc = "resume"
    /\ pc' = "idle"
    /\ \E d \in OrderDraws : Tick(d, cooldownOver)
    /\ scheduled' = scheduled + Rescheduled
    /\ UNCHANGED <<running, keyA, sinceAutoJump, autoJumps, musicGenerator, musicPlaying>>

GameLoopOrder ==
    /\ pc = "idle"
    /\ scheduled = 1
    /\ running = 0
    /\ gameState = "playing"
    /\ ticks < OrderTicks
    /\ \E d \in OrderDraws : Tick(d, cooldownOver)
    /\ scheduled' = Rescheduled
    /\ UNCHANGED <<pc, running, keyA, sinceAutoJump, autoJumps, musicGenerator, musicPlaying>>

NextOrder ==
    \/ ResumeOrder
    \/ GameLoopOrder

SpecOrder == InitOrder /\ [][NextOrder]_vars

(***************************************************************************)
(* The collision pass on a grid of placements: the player stands on the    *)
(* ground line and one spike is placed at every whole-unit offset from it. *)
(***************************************************************************)
Offsets == {n * Scale : n \in (0 - GridReach)..GridReach}

groundedPlayer ==
    [x |-> playerX, y |-> groundLine - playerHeight, velocityY |-> 0,
     isGrounded |-> TRUE, rotation |-> 0]

InitSpike ==
    /\ gameState = "playing"
    /\ pc = "idle"
    /\ scheduled = 0
    /\ running = 0
    /\ score = 0
    /\ distance = 0
    /\ gameSpeed = initialSpeed
    /\ cameraX = 0
    /\ player = groundedPlayer
    /\ \E dx \in Offsets : \E dy \in Offsets :
          obstacles = <<Spike(groundedPlayer.x + dx, groundedPlayer.y + dy)>>
    /\ platforms = <<>>
    /\ particles = <<>>
    /\ keyA = FALSE
    /\ autoMode = FALSE
    /\ cooldownOver = TRUE
    /\ contacts = <<>>
    /\ culled = 0
    /\ sinceAutoJump = autoJumpCooldown
    /\ autoJumps = noAutoJumps
    /\ musicGenerator = "null"
    /\ musicPlaying = FALSE

\* checkCollisions() on the placement
SpikePass ==
    /\ contacts = <<>>
    /\ \E c \in {checkCollisions(player, particles, obstacles, platforms, cameraX)} :
          /\ gameState' = c.gameState
          /\ player' = c.player
          /\ particles' = c.particles
          /\ contacts' = c.contacts
    /\ UNCHANGED <<pc, scheduled, running, score, distance, gameSpeed, cameraX, obstacles,
                   platforms, keyA, autoMode, cooldownOver, culled, sinceAutoJump, autoJumps,
                   musicGenerator, musicPlaying>>

NextSpike == SpikePass

SpecSpike == InitSpike /\ [][NextSpike]_vars

(***************************************************************************)
(* A run taken up after t ticks with the player resting on the ground line *)
(* and one ground-level spike at the player's screen x.                    *)
(***************************************************************************)
\* the camera offset after t ticks: the sum of the speeds of these ticks
cameraAfter(t) == t * initialSpeed + ((t * (t - 1)) \div 2) * speedIncrement

InitUnder ==
    /\ gameState = "playing"
    /\ pc = "idle"
    /\ scheduled = 1
    /\ running = 0
    /\ score = 0
    /\ \E t \in 0..(MaxTicks - 1) :
          /\ gameSpeed = initialSpeed + t * speedIncrement
          /\ cameraX = cameraAfter(t)
          /\ distance = cameraAfter(t) \div distanceUnit
          /\ obstacles = <<Spike(playerX + cameraAfter(t), gameHeight - spikeGroundOffset)>>
    /\ player = groundedPlayer
    /\ platforms = <<>>
    /\ particles = <<>>
    /\ keyA \in BOOLEAN
    /\ autoMode = keyA
    /\ cooldownOver \in BOOLEAN
    /\ contacts = <<>>
    /\ culled = 0
    /\ sinceAutoJump = autoJumpCooldown
    /\ autoJumps = noAutoJumps
    /\ musicGenerator = "null"
    /\ musicPlaying = FALSE

\* the callbacks of one run: the frames and the keys, no start or restart
NextUnder ==
    \/ GameLoop
    \/ KeyDownSpace
    \/ TouchStart
    \/ KeyDownA
    \/ KeyUpA

SpecUnder == InitUnder /\ [][NextUnder]_vars

(***************************************************************************)
(* The spawn planner.  A run is taken up after PlanAge ticks.  The window  *)
(* has been resized during the run (lines 57-76 set gameWidth anew on      *)
(* every resize), so a block or a platform that was spawned at the right   *)
(* edge of a wider viewport can be anywhere on either side of the right    *)
(* edge of the present one.                                                *)
(***************************************************************************)
\* screen x of an entity spawned earlier: on the player, at the lookahead
\* margin of getSpikePositions, just beyond it, and far beyond it
PlanScreenXs == {120 * Scale, 200 * Scale, 201 * Scale, 245 * Scale}

PlanObstacles ==
    {<<>>}
    \cup {<<Block(sx + cameraAfter(PlanAge), gameHeight - h)>> :
             sx \in PlanScreenXs, h \in blockHeights}
    \cup {<<Spike(sx + cameraAfter(PlanAge), gameHeight - spikeGroundOffset)>> :
             sx \in PlanScreenXs}

PlanPlatforms ==
    {<<>>}
    \cup {<<Platform(sx + cameraAfter(PlanAge), gameHeight - h, w)>> :
             sx \in PlanScreenXs, h \in platformHeights, w \in platformWidths}

InitPlan ==
    /\ gameState = "playing"
    /\ pc = "idle"
    /\ scheduled = 1
    /\ running = 0
    /\ score = 0
    /\ gameSpeed = initialSpeed + PlanAge * speedIncrement
    /\ cameraX = cameraAfter(PlanAge)
    /\ distance = cameraAfter(PlanAge) \div distanceUnit
    /\ player \in {groundedPlayer, restartPlayer}
    /\ obstacles \in PlanObstacles
    /\ platforms \in PlanPlatforms
    /\ particles = <<>>
    /\ keyA = FALSE
    /\ autoMode = FALSE
    /\ cooldownOver = TRUE
    /\ contacts = <<>>
    /\ culled = 0
    /\ sinceAutoJump = autoJumpCooldown
    /\ autoJumps = noAutoJumps
    /\ musicGenerator = "null"
    /\ musicPlaying = FALSE

\* an animation-frame callback: gameLoop(), the spawn planner drawing freely
GameLoopPlan ==
    /\ pc = "idle"
    /\ scheduled = 1
    /\ running = 0
    /\ gameState = "playing"
    /\ ticks < PlanAge + PlanTicks
    /\ \E d \in Draws(updatePlayer(player, obstacles, platforms, cameraX),
                      obstacles, platforms, cameraX) : Tick(d, cooldownOver)
    /\ scheduled' = Rescheduled
    /\ UNCHANGED <<pc, running, keyA, sinceAutoJump, autoJumps, musicGenerator, musicPlaying>>

NextPlan == GameLoopPlan

SpecPlan == InitPlan /\ [][NextPlan]_vars

(***************************************************************************)
(* The decision of autoplay.  A run is taken up after PlanAge ticks, some  *)
(* time after autoplay's latest jump, with the player on the ground line,  *)
(* on a block or in the air, and one obstacle at some distance ahead.      *)
(***************************************************************************)
\* screen x of the obstacle ahead: around the ends of the ranges of 30 and 40
\* that autoJump looks at after the tick has moved the obstacle by two speeds
DecideScreenXs == {105 * Scale, 111 * Scale, 135 * Scale, 141 * Scale, 145 * Scale, 151 * Scale}

\* time since autoplay's latest jump
DecideSince == {0, autoJumpCooldown \div 2, autoJumpCooldown - FrameMs, autoJumpCooldown}

\* the player resting on a block of the lowest elevation, and that block
perchedPlayer ==
    [x |-> playerX, y |-> gameHeight - 120 * Scale - playerHeight, velocityY |-> 0,
     isGrounded |-> TRUE, rotation |-> 0]

supportBlock == Block(playerX + cameraAfter(PlanAge), gameHeight - 120 * Scale)

DecidePoses ==
    {[player |-> groundedPlayer, under |-> <<>>],
     [player |-> restartPlayer, under |-> <<>>],
     [player |-> perchedPlayer, under |-> <<supportBlock>>]}

DecideAhead ==
    {<<>>}
    \cup {<<Block(sx + cameraAfter(PlanAge), gameHeight - h)>> :
             sx \in DecideScreenXs, h \in blockHeights}
    \cup {<<Spike(sx + cameraAfter(PlanAge), gameHeight - spikeGroundOffset)>> :
             sx \in DecideScreenXs}

InitDecide ==
    /\ gameState = "playing"
    /\ pc = "idle"
    /\ scheduled = 1
    /\ running = 0
    /\ score = 0
    /\ gameSpeed = initialSpeed + PlanAge * speedIncrement
    /\ cameraX = cameraAfter(PlanAge)
    /\ distance = cameraAfter(PlanAge) \div distanceUnit
    /\ \E pose \in DecidePoses : \E ahead \in DecideAhead :
          /\ player = pose.player
          /\ obstacles = pose.under \o ahead
    /\ platforms = <<>>
    /\ particles = <<>>
    /\ keyA \in BOOLEAN
    /\ autoMode = keyA
    /\ sinceAutoJump \in DecideSince
    /\ cooldownOver = (sinceAutoJump >= autoJumpCooldown)
    /\ contacts = <<>>
    /\ culled = 0
    /\ autoJumps = [noAutoJumps EXCEPT !.since = sinceAutoJump]
    /\ musicGenerator = "null"
    /\ musicPlaying = FALSE

\* an animation-frame callback: gameLoop(), ms after the previous frame
GameLoopDecide ==
    /\ pc = "idle"
    /\ scheduled = 1
    /\ running = 0
    /\ gameState = "playing"
    /\ ticks < PlanAge + PlanTicks
    /\ \E ms \in FrameTimes : ClockTick([type |-> "none"], ms)
    /\ scheduled' = Rescheduled
    /\ UNCHANGED <<pc, running, keyA, musicGenerator, musicPlaying>>

NextDecide ==
    \/ GameLoopDecide
    \/ KeyDownA
    \/ KeyUpA

SpecDecide == InitDecide /\ [][NextDecide]_vars

(***************************************************************************)
(* The fairly scheduled run: one Playing session, from the suspended       *)
(* startGame() on.  The browser runs every registered animation-frame      *)
(* callback and resolves the awaited audio set-up, which is weak fairness  *)
(* of the two steps that tick; Space may be pressed at any quiet moment    *)
(* and A is held or not for the whole session.                             *)
(***************************************************************************)
InitLive ==
    \/ InitOrder
    \/ InitAuto

ResumeLive ==
    /\ pc = "resume"
    /\ pc' = "idle"
    /\ \E d \in TickDraws : \E over \in ClockReads(d) : Tick(d, over)
    /\ scheduled' = scheduled + Rescheduled
    /\ UNCHANGED <<running, keyA, sinceAutoJump, autoJumps, musicGenerator, musicPlaying>>

\* a callback of the loop is registered and the run still ticks
LoopPending ==
    /\ pc = "idle"
    /\ scheduled = 1
    /\ running = 0
    /\ gameState = "playing"
    /\ ticks < LiveTicks

GameLoopLive ==
    /\ LoopPending
    /\ \E d \in TickDraws : \E over \in ClockReads(d) : Tick(d, over)
    /\ scheduled' = Rescheduled
    /\ UNCHANGED <<pc, running, keyA, sinceAutoJump, autoJumps, musicGenerator, musicPlaying>>

NextLive ==
    \/ ResumeLive
    \/ GameLoopLive
    \/ KeyDownSpace

\* the steps of ResumeLive are the steps that leave the await, and the steps
\* of GameLoopLive are the steps that raise gameSpeed (line 666) while a
\* callback is registered: fairness is stated on these two marks of a tick
AwaitResolves ==
    /\ pc = "resume"
    /\ pc' = "idle"

FrameRuns ==
    /\ LoopPending
    /\ gameSpeed' = gameSpeed + speedIncrement

SpecLive ==
    /\ InitLive
    /\ [][NextLive]_vars
    /\ WF_pc(AwaitResolves)
    /\ WF_gameSpeed(FrameRuns)

(***************************************************************************)
(* Claims                                                                  *)
(***************************************************************************)
\* a step that runs update() in phase Playing
TickStep == (GameLoop \/ Resume) /\ gameState = "playing"

\* the collision pass of the latest tick resolved entry i as a landing
IsLanding(i) == contacts[i].kind = "land"

\* C1: when the collision pass of a tick ends the run, the rest of that tick
\* does not run: camera offset, distance and speed stay as they were and the
\* player is left as the lethal contact found it (autoplay issues no jump).
C1_LethalContactEndsTick ==
    [][(gameState = "playing" /\ gameState' = "gameOver")
         => /\ cameraX' = cameraX
            /\ distance' = distance
            /\ gameSpeed' = gameSpeed
            /\ player' = contacts'[Len(contacts')].after]_vars

\* the world state a reset leaves
IsReset ==
    /\ obstacles = <<>> /\ platforms = <<>> /\ particles = <<>>
    /\ score = 0 /\ distance = 0 /\ cameraX = 0
    /\ gameSpeed = initialSpeed
    /\ player.velocityY = 0
    /\ player.x = playerX /\ player.y = gameHeight - restartOffset /\ player.rotation = 0

\* C2: every entry into Playing from GameOver goes through a full reset of the
\* world state.
C2_PlayingEnteredThroughReset ==
    [][(gameState = "gameOver" /\ gameState' = "playing") => IsReset']_vars

\* the world state of a new session at its first start: startGame() changes
\* the phase only, so it is the world state of Init
freshWorld == <<0, 0, initialSpeed, 0, initialPlayer, <<>>, <<>>, <<>>>>

\* C3: after a run that ended in GameOver, restart leaves the world state (the
\* lists, score, distance, speed, camera offset and the player's x, y,
\* velocityY, grounded flag and rotation) equal to that of a new session at
\* its first start.
C3_RestartEqualsFreshStart ==
    [][(gameState = "gameOver" /\ RestartClick) => world' = freshWorld]_vars

\* C4: at most one game-loop chain is scheduled at any time.
C4_SingleLoopChain == scheduled + running <= 1

\* a jump attempt of the host: the Space key or a touch
JumpAttempt == KeyDownSpace \/ TouchStart

\* C5: a jump attempt of the host either changes nothing of the player and
\* the particle list, or the phase is Playing, the player is grounded, and the
\* attempt sets velocityY to the jump impulse, clears the grounded flag and
\* emits one burst of particles; outside Playing or in the air it changes
\* nothing.
C5_JumpOnlyGroundedAndPlaying ==
    [][JumpAttempt
         => \/ /\ player' = player
               /\ particles' = particles
            \/ /\ gameState = "playing"
               /\ player.isGrounded
               /\ player' = [player EXCEPT !.velocityY = jumpForce, !.isGrounded = FALSE]
               /\ Len(particles') = Len(particles) + particlesPerBurst]_vars

\* C5 witness: a jump of the host was accepted (autoplay was off in the
\* latest tick, so the impulse is the host's)
C5_Witness ==
    /\ gameState = "playing"
    /\ ~autoMode
    /\ player.velocityY = jumpForce
    /\ ~player.isGrounded

\* C6: the player's bottom edge is never below the ground line.
C6_NeverBelowGround == player.y + playerHeight <= groundLine

\* C6 witness: the player fell and was stopped at the ground line
C6_Witness ==
    /\ gameState = "playing"
    /\ ticks > 0
    /\ player.y + playerHeight = groundLine
    /\ player.isGrounded

\* C7: every landing the collision pass resolves, on a block or a platform,
\* leaves velocityY exactly 0 and the bottom edge exactly at the top of that
\* surface.
C7_LandingSnapsToTop ==
    \A i \in DOMAIN contacts :
        IsLanding(i) =>
            /\ contacts[i].after.velocityY = 0
            /\ contacts[i].after.y + playerHeight = contacts[i].y

\* C7 witness: a falling player was landed on a platform
C7_Witness ==
    \E i \in DOMAIN contacts :
        /\ IsLanding(i)
        /\ contacts[i].surface = "platform"
        /\ contacts[i].before.velocityY > 0
        /\ contacts[i].before.y # contacts[i].after.y

\* the landing condition of the claim, on an entry of the pass
InLandingWindow(k) ==
    /\ k.before.x < k.screenX + k.width
    /\ k.before.x + playerWidth > k.screenX
    /\ k.before.y + playerHeight >= k.y
    /\ k.before.y + playerHeight <= k.y + k.height + 5 * Scale
    /\ k.before.velocityY >= 0

\* the rectangles of the player and the entity of an entry overlap
RectanglesOverlap(k) ==
    /\ k.before.x < k.screenX + k.width
    /\ k.before.x + playerWidth > k.screenX
    /\ k.before.y < k.y + k.height
    /\ k.before.y + playerHeight > k.y

\* C8: a block that the pass examines with the player overlapping it
\* horizontally, the bottom edge in [block.y, block.y + height + 5] and
\* velocityY >= 0 is resolved as a landing with velocityY 0 and never ends
\* the run, also when the two rectangles overlap.
C8_BlockLandingBeforeLethal ==
    \A i \in DOMAIN contacts :
        (contacts[i].surface = "block" /\ InLandingWindow(contacts[i]))
            => /\ IsLanding(i)
               /\ contacts[i].after.velocityY = 0

\* C8 witness: a block was landed on while the rectangles overlapped and the
\* player was falling
C8_Witness ==
    \E i \in DOMAIN contacts :
        /\ contacts[i].surface = "block"
        /\ IsLanding(i)
        /\ RectanglesOverlap(contacts[i])
        /\ contacts[i].before.velocityY > 0

\* C9: a platform never ends the run; the pass lands the player on it only if
\* the bottom edge was at or above the platform's top before the tick's
\* motion, and otherwise leaves the player as it was.
C9_PlatformFromAboveOnly ==
    [][TickStep
         => \A i \in DOMAIN contacts' :
                contacts'[i].surface = "platform"
                    => /\ contacts'[i].kind # "lethal"
                       /\ IsLanding(i)' => player.y + playerHeight <= contacts'[i].y
                       /\ ~IsLanding(i)' => contacts'[i].after = contacts'[i].before]_vars

\* C10: score is 10 times the number of obstacles the cull pass has removed
\* since the last reset.
C10_ScoreCountsCulledObstacles == score = 10 * culled

\* C10 witness: the cull pass has removed an obstacle and the score counts it
C10_Witness ==
    /\ score > 0
    /\ culled > 0

\* The reference for a spike contact.  The triangle of entry k has its base on
\* y = k.y + height and its apex at the middle of the top; at column x it
\* covers the ys from TriangleTop(k, x) down to the base.  The corners of the
\* region two such shapes share lie on columns that are a multiple of half a
\* unit when the shapes are placed on whole units, so the shapes share a
\* point exactly when they do on one of these columns.
Half == Scale \div 2

Columns(k) == {k.before.x + i * Half : i \in 0..((2 * playerWidth) \div Scale)}

TriangleTop(k, x) ==
    LET mid == k.screenX + k.width \div 2
    IN  k.y + ((k.height \div Scale) * Abs(x - mid)) \div ((k.width \div 2) \div Scale)

SharesPoint(k) ==
    \E x \in Columns(k) :
        /\ k.screenX <= x /\ x <= k.screenX + k.width
        /\ TriangleTop(k, x) <= k.before.y + playerHeight
        /\ k.before.y <= k.y + k.height

\* C11: on every whole-unit placement of a 40x40 spike against the 40x40
\* player, the spike test of the collision pass reports a contact exactly
\* when the spike's triangle and the player's rectangle, as closed regions,
\* share a point.
C11_SpikeTestIsExact ==
    \A i \in DOMAIN contacts :
        contacts[i].surface = "spike"
            => (contacts[i].kind = "lethal" <=> SharesPoint(contacts[i]))

\* C11 witness: a contact was reported where the shapes only touch: the apex
\* of the spike on the player's bottom edge, strictly between its corners
C11_Witness ==
    \E i \in DOMAIN contacts :
        /\ contacts[i].kind = "lethal"
        /\ contacts[i].surface = "spike"
        /\ contacts[i].y = contacts[i].before.y + playerHeight
        /\ contacts[i].before.x < contacts[i].screenX + contacts[i].width \div 2
        /\ contacts[i].screenX + contacts[i].width \div 2 < contacts[i].before.x + playerWidth

\* the player rests on the ground line and the only obstacle is a
\* ground-level spike at the player's screen x
SpikeUnderPlayer ==
    /\ player.isGrounded
    /\ player.y + playerHeight = groundLine
    /\ Len(obstacles) = 1
    /\ obstacles[1].type = "spike"
    /\ obstacles[1].y = gameHeight - spikeGroundOffset
    /\ obstacles[1].x - cameraX = player.x

C13_SpeedNeverDecreases ==
    [][/\ TickStep => gameSpeed' - gameSpeed = speedIncrement
       /\ gameSpeed' < gameSpeed => (RestartClick /\ gameSpeed' = initialSpeed)
       /\ gameSpeed' # gameSpeed => (TickStep \/ RestartClick)]_vars

\* C13 witness: a session that has run several ticks, the last of them the
\* one that ended it
C13_Witness ==
    /\ gameState = "gameOver"
    /\ gameSpeed >= initialSpeed + 3 * speedIncrement

\* C14: every call of jump() that autoplay makes finds the grounded flag
\* true, and any two of its calls are at least the cooldown apart, whatever
\* the ticks, the host's jumps and the restarts in between.
C14_AutoJumpGroundedAndCooledDown ==
    /\ autoJumps.grounded
    /\ autoJumps.calls >= 2 => autoJumps.gap >= 800

\* C14 witness: autoplay has jumped twice, and is on the ground again in
\* auto mode before the cooldown of its second jump is over
C14_Witness ==
    /\ autoJumps.calls >= 2
    /\ autoJumps.since < 800
    /\ gameState = "playing"
    /\ autoMode
    /\ player.isGrounded

\* C15: distance is the whole part of a tenth of the camera offset, and as
\* long as no obstacle has been spawned in the run (none is in the list and
\* none was culled) the score is 0, however many ticks have run.
C15_DistanceFollowsCameraAndScoreStaysZero ==
    /\ distance = cameraX \div (10 * Scale)
    /\ (obstacles = <<>> /\ culled = 0) => score = 0

\* C15 witness: a run of 1000 ticks in which no obstacle was spawned
C15_Witness ==
    /\ gameState = "playing"
    /\ ticks >= 1000
    /\ obstacles = <<>>
    /\ culled = 0
    /\ distance > 0

\* C16: the phase changes only by its events.  GameOver is entered only from
\* Playing, by a tick whose collision pass found a lethal contact; Playing is
\* entered only by the start or the restart handler; Menu is never entered
\* from another phase.
C16_PhaseChangesOnlyByEvents ==
    [][/\ (gameState # "gameOver" /\ gameState' = "gameOver")
            => /\ TickStep
               /\ contacts' # <<>>
               /\ contacts'[Len(contacts')].kind = "lethal"
       /\ (gameState # "playing" /\ gameState' = "playing")
            => (StartClick \/ RestartClick)
       /\ gameState' = "menu" => gameState = "menu"]_vars

\* C16 witness: a run entered by the restart handler was ended by a lethal
\* contact of its collision pass
C16_Witness ==
    /\ gameState = "gameOver"
    /\ contacts # <<>>
    /\ contacts[Len(contacts)].kind = "lethal"
    /\ contacts[Len(contacts)].before.y >= gameHeight - restartOffset

\* a step of the game without its audio
CoreStep ==
    \/ StartCore
    \/ RestartCore
    \/ ResumeCore
    \/ GameLoopCore
    \/ KeyDownSpace
    \/ TouchStart
    \/ KeyDownA
    \/ KeyUpA

\* C17: whether initAudio() fails or not, every step changes the game as the
\* game without audio does.  With the music generator null, start and
\* restart enter Playing, the continuation of startGame() runs the first tick
\* and registers the next frame while the phase is Playing, and a tick that
\* finds a lethal contact ends in GameOver.
C17_RunsTheSameWithoutAudio ==
    [][/\ CoreStep \/ UNCHANGED core
       /\ musicGenerator' = "null" =>
            /\ (StartClickAudio \/ RestartClickAudio) => (gameState' = "playing" /\ pc' = "resume")
            /\ pc = "resume" =>
                 /\ gameSpeed' = gameSpeed + speedIncrement
                 /\ scheduled' = scheduled + (IF gameState' = "playing" THEN 1 ELSE 0)
            /\ (TickStep /\ contacts' # <<>> /\ contacts'[Len(contacts')].kind = "lethal")
                 => gameState' = "gameOver"]_vars

\* C17 witness: a run whose audio never came up was started, ran its ticks
\* and was ended by a lethal contact
C17_Witness ==
    /\ musicGenerator = "null"
    /\ gameState = "gameOver"
    /\ ticks >= 2
    /\ scheduled + running = 0

\* C18: a run that autoplay plays alone from its start, and whose only
\* hazard is one ground-level spike that comes up to the player on the
\* ground, does not end in GameOver.
C18_AutoModeAvoidsSingleSpike == gameState # "gameOver"

\* the orderings of a list
Orderings(list) ==
    LET n == Len(list)
        picks == {f \in [1..n -> 1..n] : \A i, j \in 1..n : f[i] = f[j] => i = j}
    IN  {[i \in 1..n |-> list[f[i]]] : f \in picks}

\* the collision pass of the tick that is being taken, had the obstacle list
\* been obs: the phase after it and the player's y and velocityY
PassOutcome(obs) ==
    LET r == checkCollisions(updatePlayer(player, obstacles, platforms, cameraX),
                             updateParticles(particles), obs, platforms', cameraX)
    IN  <<r.gameState, r.player.y, r.player.velocityY>>

\* C19: the collision pass of a tick gives the same phase and the same y and
\* velocityY of the player for every ordering of the obstacle list.
C19_PassIndependentOfOrder ==
    [][(ResumeOrder \/ GameLoopOrder)
         => \A q \in Orderings(obstacles') : PassOutcome(q) = PassOutcome(obstacles')]_vars

\* an entity as the cull pass of the tick that is being taken moves it
Moved(e) == [e EXCEPT !.x = @ - gameSpeed]

\* its trailing edge is behind the camera offset of the cull pass
Behind(e) == e.x + e.width < cameraX

\* the cull pass kept of the list exactly the entities that are not behind
\* the camera offset, each of them moved by the speed
CulledRight(before, after) ==
    /\ \A j \in DOMAIN before :
          ~Behind(Moved(before[j])) <=> \E i \in DOMAIN after : after[i] = Moved(before[j])
    /\ \A i \in DOMAIN after : ~Behind(after[i])
    /\ Len(after) >= Cardinality({j \in DOMAIN before : ~Behind(Moved(before[j]))})

\* C20: after the cull pass of a tick an obstacle or platform is in its list
\* exactly when its trailing edge is not behind the camera offset of the pass;
\* one that is behind is removed in that pass, and every survivor's world x
\* has gone down by exactly the speed of the tick.
C20_CullKeepsExactlyTheVisible ==
    [][TickStep => /\ CulledRight(obstacles, obstacles')
                   /\ CulledRight(platforms, platforms')
                   /\ culled' - culled
                        = Cardinality({j \in DOMAIN obstacles : Behind(Moved(obstacles[j]))})]_vars

\* a run goes on after a cull pass has removed an obstacle and kept another
C20_Witness ==
    /\ gameState = "playing"
    /\ culled >= 1
    /\ obstacles # <<>>
    /\ ticks >= 1

\* the obstacles the spawn planner created in the tick that is being taken,
\* as they were at creation: the cull pass of the same tick moved them by the
\* speed and appended nothing
CreatedIn(before, after) ==
    LET kept == Cardinality({j \in DOMAIN before : ~Behind(Moved(before[j]))})
        new == SubSeq(after, kept + 1, Len(after))
    IN  [i \in DOMAIN new |-> [new[i] EXCEPT !.x = @ + gameSpeed]]

\* the entities of an emission are not left of the right edge of the viewport,
\* and the first is on it
BeyondRightEdge(created) ==
    /\ \A i \in DOMAIN created : created[i].x >= cameraX + gameWidth
    /\ created # <<>> => created[1].x = cameraX + gameWidth

\* C21: every entity the spawn planner creates has, at creation, world x not
\* less than the camera offset plus the viewport width, and the first entity
\* of an emission is exactly there.
C21_SpawnsBeyondRightEdge ==
    [][GameLoopPlan => /\ BeyondRightEdge(CreatedIn(obstacles, obstacles'))
                       /\ BeyondRightEdge(CreatedIn(platforms, platforms'))]_vars

\* a tick has created a triple of spikes while an older entity was kept
C21_Witness ==
    /\ ticks = PlanAge + 1
    /\ Len(obstacles) = 4
    /\ obstacles[2].x + 2 * (gameSpeed - speedIncrement) = cameraX + gameWidth
    /\ obstacles[4].x = obstacles[2].x + 2 * spikeSpacing

\* the heights a spike may be given in the tick that is being taken: ground
\* level, and 40 above the top of every platform and block whose screen x is
\* beyond the player's x plus 100
AllowedSpikeYs ==
    {gameHeight - 80 * Scale}
    \cup {platforms[i].y - 40 * Scale :
            i \in {j \in DOMAIN platforms : platforms[j].x - cameraX > player.x + 100 * Scale}}
    \cup {obstacles[i].y - 40 * Scale :
            i \in {j \in DOMAIN obstacles : /\ obstacles[j].type = "block"
                                            /\ obstacles[j].x - cameraX > player.x + 100 * Scale}}

\* the candidate heights of the tick that is being taken
Candidates ==
    LET c == getSpikePositions(updatePlayer(player, obstacles, platforms, cameraX),
                               obstacles, platforms, cameraX)
    IN  {c[i] : i \in DOMAIN c}

\* C22: a spike's y comes from a non-empty candidate set that holds ground
\* level and otherwise only the heights 40 above platforms and blocks strictly
\* more than 100 ahead of the player's x; the spikes of one pattern share
\* their y and are 50 apart.
C22_SpikeHeightsFromCandidates ==
    [][GameLoopPlan =>
         LET created == CreatedIn(obstacles, obstacles')
         IN  /\ gameHeight - 80 * Scale \in Candidates
             /\ Candidates \subseteq AllowedSpikeYs
             /\ \A i \in DOMAIN created :
                   created[i].type = "spike" =>
                      /\ created[i].y \in Candidates
                      /\ created[i].y = created[1].y
                      /\ created[i].x = created[1].x + (i - 1) * 50 * Scale]_vars

\* a tick has created a pair of spikes above ground level
C22_Witness ==
    /\ ticks = PlanAge + 1
    /\ Len(obstacles) = 3
    /\ obstacles[1].type = "block"
    /\ obstacles[2].type = "spike" /\ obstacles[3].type = "spike"
    /\ obstacles[2].y = obstacles[1].y - 40 * Scale
    /\ obstacles[3].y = obstacles[2].y

\* the spike stands on the surface: its base is the surface's top and their
\* horizontal extents overlap
PerchedOn(spike, surface) ==
    /\ spike.y + spike.height = surface.y
    /\ spike.x < surface.x + surface.width
    /\ surface.x < spike.x + spike.width

\* C23: a spike created above ground level stands on a platform or a block:
\* its base is that surface's top and it overlaps the surface horizontally.
C23_RaisedSpikeIsPerched ==
    [][GameLoopPlan =>
         LET created == CreatedIn(obstacles, obstacles')
         IN  \A i \in DOMAIN created :
                (created[i].type = "spike" /\ created[i].y # gameHeight - 80 * Scale) =>
                   \/ \E j \in DOMAIN platforms : PerchedOn(created[i], platforms[j])
                   \/ \E j \in DOMAIN obstacles :
                         obstacles[j].type = "block" /\ PerchedOn(created[i], obstacles[j])]_vars

\* the player and the particles as the collision pass of the tick that is
\* being taken leaves them, which is how autoJump finds them
AfterPass ==
    checkCollisions(updatePlayer(player, obstacles, platforms, cameraX),
                    updateParticles(particles), obstacles', platforms', cameraX)

\* the tick that is being taken has applied the jump impulse after its pass
Jumped == player'.velocityY = 0 - 15 * Scale /\ ~player'.isGrounded

\* the cooldown test of the tick that is being taken: at least 800 ms since
\* autoplay's latest jump
Elapsed == IF Jumped THEN autoJumps'.gap >= 800 ELSE sinceAutoJump' >= 800

\* some obstacle that satisfies right is more than 0 and less than range
\* ahead of p, by screen x after the camera has moved
Within(p, range, right(_)) ==
    \E i \in DOMAIN obstacles' :
        LET dist == (obstacles'[i].x - cameraX') - p.x
        IN  dist > 0 /\ dist < range /\ right(obstacles'[i])

\* what the claim lets autoplay jump for
JumpCalledFor(p) ==
    \/ Within(p, 40 * Scale, LAMBDA o : o.type = "spike")
    \/ /\ p.y >= gameHeight - 100 * Scale
       /\ \/ Within(p, 40 * Scale, LAMBDA o : o.type = "block" /\ o.y < p.y + 40 * Scale - 40 * Scale)
          \/ ~Within(p, 30 * Scale, LAMBDA o : TRUE)

\* C24: in a tick in which autoplay runs it applies a jump exactly when the
\* player is grounded, the cooldown is over, and a spike is within 40 ahead or
\* the player is at ground level with a too-tall block within 40 ahead or no
\* obstacle within 30 ahead; otherwise it changes nothing.
C24_AutoplayDecision ==
    [][(GameLoopDecide /\ keyA) =>
         LET p == AfterPass.player
         IN  /\ Jumped <=> (p.isGrounded /\ Elapsed /\ JumpCalledFor(p))
             /\ Jumped => /\ player' = [p EXCEPT !.velocityY = 0 - 15 * Scale, !.isGrounded = FALSE]
                           /\ sinceAutoJump' = 0
             /\ ~Jumped => /\ player' = p
                            /\ particles' = AfterPass.particles
                            /\ \E ms \in FrameTimes : sinceAutoJump' = Later(sinceAutoJump, ms)]_vars

\* autoplay has jumped for a block that is less than 30 ahead
C24_Witness ==
    /\ ticks = PlanAge + 1
    /\ gameState = "playing"
    /\ autoJumps.calls = 1
    /\ player.velocityY = 0 - 15 * Scale
    /\ Len(obstacles) = 1
    /\ obstacles[1].type = "block"
    /\ obstacles[1].x - cameraX - player.x > 0
    /\ obstacles[1].x - cameraX - player.x < 30 * Scale

\* C25: a tick at whose start key A is not down applies no jump impulse and
\* leaves the time of autoplay's latest jump as it was.
C25_NoAutoplayWithoutHold ==
    [][(GameLoopDecide /\ ~keyA) =>
          /\ ~Jumped
          /\ player' = AfterPass.player
          /\ autoJumps'.calls = autoJumps.calls
          /\ \E ms \in FrameTimes : sinceAutoJump' = Later(sinceAutoJump, ms)]_vars

\* a tick has run without key A for a player on the ground line, on an empty
\* road, with the cooldown over: autoplay would have jumped
C25_Witness ==
    /\ ticks = PlanAge + 1
    /\ gameState = "playing"
    /\ ~autoMode
    /\ player.isGrounded
    /\ player.y = groundLine - playerHeight
    /\ obstacles = <<>>
    /\ sinceAutoJump = autoJumpCooldown
    /\ autoJumps.calls = 0

\* the edges of a spike's triangle and of the player's square, on the screen
SpikeEdges(spike) ==
    LET a == Pt(spike.x - cameraX, spike.y + spike.height)
        b == Pt(spike.x - cameraX + spike.width \div 2, spike.y)
        c == Pt(spike.x - cameraX + spike.width, spike.y + spike.height)
    IN  {<<a, b>>, <<b, c>>, <<c, a>>}

SquareEdges ==
    LET a == Pt(player.x, player.y)
        b == Pt(player.x + 40 * Scale, player.y)
        c == Pt(player.x + 40 * Scale, player.y + 40 * Scale)
        d == Pt(player.x, player.y + 40 * Scale)
    IN  {<<a, b>>, <<b, c>>, <<c, d>>, <<d, a>>}

\* the cross product of the edge from a to b, whose length is in whole
\* units, and the vector from c to d
Cross(a, b, c, d) == Mul(b.x - a.x, d.y - c.y) - Mul(b.y - a.y, d.x - c.x)

\* the side of the line through edge e on which point q lies
Side(e, q) == Sign(Cross(e[1], e[2], e[1], q))

Parallel(e, f) == Cross(e[1], e[2], f[1], f[2]) = 0

\* two closed segments that are not parallel have a point in common: neither
\* has both ends strictly on one side of the other
Meet(e, f) ==
    /\ Side(e, f[1]) * Side(e, f[2]) <= 0
    /\ Side(f, e[1]) * Side(f, e[2]) <= 0

\* C26: linesIntersect is false for every pair of parallel segments, also
\* when they lie on one line and overlap, and for every other pair it is true
\* exactly when the two closed segments have a point in common.
C26_LinesIntersectIsSegmentMeeting ==
    \A k \in DOMAIN obstacles : \A e \in SpikeEdges(obstacles[k]) : \A f \in SquareEdges :
        linesIntersect(e[1], e[2], f[1], f[2]) = (~Parallel(e, f) /\ Meet(e, f))

\* the collision pass has examined a spike whose base lies on the line of the
\* player's bottom edge and overlaps it, while a slanted edge of the spike
\* ends on the player's right edge
C26_Witness ==
    /\ contacts # <<>>
    /\ obstacles[1].y + obstacles[1].height = player.y + 40 * Scale
    /\ obstacles[1].x - cameraX = player.x + 40 * Scale - obstacles[1].width \div 2
    /\ \E e \in SpikeEdges(obstacles[1]) : \E f \in SquareEdges :
          /\ Parallel(e, f)
          /\ e[1].y = f[1].y
          /\ ~linesIntersect(e[1], e[2], f[1], f[2])

\* C27: whenever the grounded flag is true the player is at rest or falling,
\* never rising, so that no jump is accepted during the ascent of a jump.
C27_GroundedIsNotRising == player.isGrounded => player.velocityY >= 0

\* C28: a landing never moves the player down: y after the snap is at most y
\* before it, and the player is raised by at most the height of the surface
\* plus 5, which is 65 for a block and 25 for a platform.
C28_LandingNeverLowers ==
    \A i \in DOMAIN contacts :
        contacts[i].kind = "land" =>
            /\ contacts[i].after.y <= contacts[i].before.y
            /\ contacts[i].before.y - contacts[i].after.y
                  <= (IF contacts[i].surface = "block" THEN 65 ELSE 25) * Scale

\* a landing on a block has raised the player by more than 60
C28_Witness ==
    \E i \in DOMAIN contacts :
        /\ contacts[i].kind = "land"
        /\ contacts[i].surface = "block"
        /\ contacts[i].before.y - contacts[i].after.y > 60 * Scale

\* the player stands on the ground line
OnGroundLine(p) == p.isGrounded /\ p.y + 40 * Scale = gameHeight - 50 * Scale

\* C29: with the elevations at which blocks are spawned, autoplay jumps in
\* every tick in which it runs with the player grounded on the ground line and
\* the cooldown over, whatever the obstacles; it does nothing only if the
\* player is in the air, the cooldown is not over, or the player stands on a
\* block or platform with no spike within 40 ahead.
C29_AutoplayAlwaysJumpsFromGroundLine ==
    [][(GameLoopDecide /\ keyA) =>
         LET p == AfterPass.player
         IN  /\ (OnGroundLine(p) /\ Elapsed) => Jumped
             /\ ~Jumped => \/ ~p.isGrounded
                            \/ ~Elapsed
                            \/ /\ p.y + 40 * Scale < gameHeight - 50 * Scale
                               /\ ~Within(p, 40 * Scale, LAMBDA o : o.type = "spike")]_vars

\* autoplay has jumped from the ground line with a block of the lowest
\* elevation less than 30 ahead
C29_Witness ==
    /\ ticks = PlanAge + 1
    /\ autoJumps.calls = 1
    /\ player.velocityY = 0 - 15 * Scale
    /\ player.y + 40 * Scale = gameHeight - 50 * Scale
    /\ Len(obstacles) = 1
    /\ obstacles[1].type = "block"
    /\ obstacles[1].y = gameHeight - 120 * Scale
    /\ obstacles[1].x - cameraX - player.x > 0
    /\ obstacles[1].x - cameraX - player.x < 30 * Scale

\* a call of gameLoop(): an animation-frame callback, or the call that ends
\* startGame()
LoopCall == GameLoop \/ Resume

\* callbacks registered and not yet run
Pending == scheduled + running

\* C30: a tick invoked in phase Menu or GameOver leaves player, obstacles,
\* platforms, particles, camera offset, score, distance, speed and the
\* autoMode flag unchanged, and from the tick that ends the run until start or
\* restart no callback is registered.
C30_NoTickOutsidePlaying ==
    [][/\ (LoopCall /\ gameState # "playing") =>
             /\ UNCHANGED <<player, obstacles, platforms, particles, cameraX, score,
                            distance, gameSpeed, autoMode>>
             /\ gameState' = gameState
       /\ (LoopCall /\ gameState' = "gameOver") =>
             Pending' = Pending - (IF pc = "resume" THEN 0 ELSE 1)
       /\ (gameState = "gameOver" /\ gameState' = "gameOver") => Pending' <= Pending]_vars

\* the run has ended while a second loop chain has a callback registered:
\* that callback runs a tick in phase GameOver
C30_Witness ==
    /\ gameState = "gameOver"
    /\ pc = "idle"
    /\ scheduled = 1
    /\ running = 0
    /\ obstacles # <<>>

\* a flight that began early enough for the run's remaining ticks to hold it
InFlight ==
    /\ gameState = "playing"
    /\ ~player.isGrounded
    /\ ticks + FlightTicks <= LiveTicks

\* jump() has acted in the handler that has just run: its burst is fresh.
\* jump() acts only on a grounded player (line 182), so the player was
\* grounded inside that handler; autoplay can jump in the tick that lands
JumpAccepted ==
    \E i \in 1..Len(particles) :
        /\ particles[i].color = jumpColor
        /\ particles[i].life = particleLife

GroundedAgain ==
    \/ player.isGrounded
    \/ JumpAccepted

\* C31: under fair ticking of a Playing session the player is never airborne
\* forever: every state in which the player is off the ground, the states
\* of a flight after an accepted jump among them, is followed by a handler
\* in which the player becomes grounded again, or by the end of the run in
\* GameOver
C31_AirborneLeadsToGroundedOrGameOver ==
    (InFlight /\ ~JumpAccepted) ~> (GroundedAgain \/ gameState = "gameOver")

\* the player stands on the ground line again while the burst of a jump
\* made at least thirty ticks earlier is still fading
C31_Witness ==
    /\ gameState = "playing"
    /\ player.isGrounded
    /\ player.y = groundLine - playerHeight
    /\ \E i \in 1..Len(particles) :
          /\ particles[i].color = jumpColor
          /\ particles[i].life <= particleLife - 30 * particleDecay

====
